---- MODULE Spec2Model ----
(***************************************************************************)
(* Model of pygeoapi-sql-edr's EDRProvider (src/src/pygeoapi_sql_edr/      *)
(* edr.py): the field catalog (get_fields), the location query engine      *)
(* (locations) and the coverage pivot engine (location), run against a     *)
(* small observation table joined to one external metadata table.          *)
(***************************************************************************)
EXTENDS Integers, Sequences, FiniteSets, TLC

\* ---------------------------------------------------------------- bounds
MaxRows == 3        \* rows in the observation table
MaxLimit == 3       \* largest `limit` a request passes
MaxQueries == 3     \* cap on the counted field-catalog queries

\* ------------------------------------------------------- the store's data
Locations == {"L1", "L2"}
ParameterIds == {"00010", "00060"}
Times == 1..3

Min(a, b) == IF a < b THEN a ELSE b

\* The geometry column of a location: a Point for L1, a rectangular Polygon
\* for L2, each with its extent [minx, miny, maxx, maxy].
Geometry(loc) ==
    IF loc = "L1" THEN [geom_type |-> "Point", ext |-> <<1, 1, 1, 1>>]
    ELSE [geom_type |-> "Polygon", ext |-> <<3, 3, 4, 4>>]

\* The result column of the observation (loc, param, time).
ResultOf(loc, param, time) ==
    (IF loc = "L1" THEN 100 ELSE 200) + (IF param = "00010" THEN 10 ELSE 60) + time

\* Every row the observation table may hold (columns lc, pic, tc, rc).
AllRows ==
    {[loc |-> l, param |-> p, time |-> t, value |-> ResultOf(l, p, t)] :
        l \in Locations, p \in ParameterIds, t \in Times}

\* Columns read through the metadata join: parameter name and unit.
Title(p) == IF p = "00010" THEN "Temperature, water" ELSE "Discharge"
Unit(p) == IF p = "00010" THEN "degC" ELSE "ft^3/s"

\* --------------------------------------------------------- request inputs
NoDatetime == [form |-> "none"]
Datetimes == {NoDatetime,
              [form |-> "instant", at |-> 3],
              [form |-> "from", begin |-> 2],
              [form |-> "until", end |-> 1]}
BBoxes == {<<>>, <<0, 0, 2, 2>>, <<5, 5, 6, 6>>}
SelectProperties == {<<>>, <<"00010">>, <<"00060">>, <<"00010", "00060">>}
Limits == 1..MaxLimit
NoLocation == ""

\* A missing value of the pivot (SQL NULL / Python None); a present value v
\* is the one-element tuple <<v>>.
Null == <<>>

NoCall == [op |-> "none"]
NoResponse == [type |-> "None"]

VARIABLES
    rows,       \* the observation table (table_model)
    metadata,   \* the external table: the parameter codes it has a row for
    pc,         \* "new" before __init__ reaches get_fields(), then "ready";
                \* under SpecRace: each thread's position in get_fields()
    fields,     \* self._fields
    queries,    \* field-catalog queries sent to the store so far
    call,       \* the request being answered; under SpecRace: the
                \* result rows each thread has still to store
    response    \* what the request returned or raised; under SpecRace:
                \* whether each thread's get_fields() has returned

vars == <<rows, metadata, pc, fields, queries, call, response>>

\* ------------------------------------------------------------- sequences
Range(s) == {s[i] : i \in 1..Len(s)}

\* The values of a mapping (dict.values()).
Values(f) == {f[k] : k \in DOMAIN f}

Max(S) == CHOOSE m \in S : \A x \in S : x <= m
Minimum(S) == CHOOSE m \in S : \A x \in S : m <= x

RECURSIVE SortDesc(_)
SortDesc(S) ==
    IF S = {} THEN <<>>
    ELSE LET m == Max(S) IN <<m>> \o SortDesc(S \ {m})

\* Every order in which a store may hand back the rows of S.
Orders(S) ==
    {o \in [1..Cardinality(S) -> S] :
        \A i, j \in 1..Cardinality(S) : o[i] = o[j] => i = j}

Limit(s, limit) == SubSeq(s, 1, Min(limit, Len(s)))

\* ---------------------------------------------------------------- filters
\* for j in self.joins: query.join(*j) -- an inner join on
\* foreign == remote: a row survives when the external table has its key.
Joins(rs) == {r \in rs : r.param \in metadata}

\* A variant that joins the equalities with AND instead of OR.
ParameterFiltersAnd(parameter, r) ==
    IF parameter = <<>> THEN TRUE
    ELSE \A i \in 1..Len(parameter) : r.param = parameter[i]

\* _get_parameter_filters: True for an empty list, else an OR of equalities.
ParameterFilters(parameter, r) ==
    IF parameter = <<>> THEN TRUE
    ELSE \E i \in 1..Len(parameter) : r.param = parameter[i]

\* _get_datetime_filter: admit all, or an instant / interval predicate on
\* the time column ("t", "begin/end", "begin/..", "../end").
DatetimeFilter(datetime_, r) ==
    CASE datetime_.form = "none" -> TRUE
      [] datetime_.form = "instant" -> r.time = datetime_.at
      [] datetime_.form = "between" ->
            datetime_.begin <= r.time /\ r.time <= datetime_.end
      [] datetime_.form = "from" -> r.time >= datetime_.begin
      [] datetime_.form = "until" -> r.time <= datetime_.end

\* _get_bbox_filter: admit all, or geometry intersects the envelope.
Intersects(e, b) ==
    /\ e[1] <= b[3] /\ b[1] <= e[3]
    /\ e[2] <= b[4] /\ b[2] <= e[4]

BBoxFilter(bbox, r) ==
    IF bbox = <<>> THEN TRUE
    ELSE Intersects(Geometry(r.loc).ext, bbox)

\* ---------------------------------------------------------- field catalog
\* The rows of get_fields' query: distinct parameter ids over the joins,
\* each with its name and unit.
FieldRows == {r.param : r \in Joins(rows)}

FieldEntry(p) == [type |-> "number", title |-> Title(p), unit |-> Unit(p)]

NoFields == [p \in {} |-> FieldEntry(p)]

\* get_fields' guard: populate when the catalog is empty (falsy).
MustPopulate(f, q) == DOMAIN f = {}

\* get_fields(): query and fill self._fields when it is empty, return it.
GetFields ==
    IF MustPopulate(fields, queries)
    THEN /\ queries' = queries + 1
         /\ fields' = [p \in FieldRows |-> FieldEntry(p)]
    ELSE UNCHANGED <<fields, queries>>

\* -------------------------------------------------------- _get_parameters
ParameterOf(p) ==
    [id |-> p, type |-> "Parameter", name |-> fields[p].title,
     unit |-> fields[p].unit]

\* `if not parameters: parameters = self.fields.keys()`
ParameterKeys(parameters) ==
    IF parameters = {} THEN DOMAIN fields ELSE parameters

\* self.fields[param] raises KeyError for an id the catalog lacks.
GetParametersRaises(parameters) ==
    ~(ParameterKeys(parameters) \subseteq DOMAIN fields)

GetParameters(parameters) ==
    [p \in ParameterKeys(parameters) |-> ParameterOf(p)]

\* ------------------------------------------------- coverage pivot engine
\* The right side of an outer-join row that matched no table row.
NoRow == [loc |-> NoLocation, param |-> "", time |-> 0, value |-> 0]

\* The filtered, joined rows of one location (lines 281-289).
LocationQuery(location_id, select_properties, datetime_) ==
    {r \in Joins(rows) :
        /\ r.loc = location_id
        /\ ParameterFilters(select_properties, r)
        /\ DatetimeFilter(datetime_, r)}

\* query.distinct(self.pic).with_entities(self.pic)
CandidateParameters(location_id, select_properties, datetime_) ==
    {r.param : r \in LocationQuery(location_id, select_properties, datetime_)}

\* time_query: SELECT DISTINCT time ... ORDER BY time DESC LIMIT limit
TimeQuery(location_id, select_properties, datetime_, limit) ==
    Limit(SortDesc({r.time :
            r \in LocationQuery(location_id, select_properties, datetime_)}),
          limit)

\* time_subquery LEFT OUTER JOIN table_model
\*   ON time_alias = tc AND location_id = lc
OuterJoin(spine, location_id) ==
    LET matches(t) == {r \in rows : r.time = t /\ r.loc = location_id}
    IN  UNION {IF matches(t) = {} THEN {<<t, NoRow>>}
               ELSE {<<t, r>> : r \in matches(t)} : t \in Range(spine)}

\* case((and_(parameter == pic, location_id == lc), rc), else_=None)
CaseColumn(parameter, location_id, r) ==
    IF r.param = parameter /\ r.loc = location_id THEN <<r.value>> ELSE Null

\* A variant of the loop body that drops null columns instead of appending
\* them (gaps omitted, not represented).
AppendRowSkippingNulls(coverage, location_id, jr) ==
    [coverage EXCEPT
        !.t = Append(@, jr[1]),
        !.ranges = [p \in DOMAIN @ |->
            IF CaseColumn(p, location_id, jr[2]) = Null THEN @[p]
            ELSE [values |-> Append(@[p].values,
                                    CaseColumn(p, location_id, jr[2])),
                  shape |-> @[p].shape + 1]]]

\* The loop body of lines 344-349 for one result row.
AppendRow(coverage, location_id, jr) ==
    [coverage EXCEPT
        !.t = Append(@, jr[1]),
        !.ranges = [p \in DOMAIN @ |->
            [values |-> Append(@[p].values,
                               CaseColumn(p, location_id, jr[2])),
             shape |-> @[p].shape + 1]]]

RECURSIVE Pivot(_, _, _)
Pivot(coverage, location_id, results) ==
    IF results = <<>> THEN coverage
    ELSE Pivot(AppendRow(coverage, location_id, Head(results)),
               location_id, Tail(results))

Series(geom_type) ==
    IF geom_type = "Point" THEN "PointSeries" ELSE "PolygonSeries"

\* location(): every coverage (or error) the call can produce; the store
\* fixes no order for the rows of the outer query.
LocationResponses(location_id, select_properties, datetime_, limit) ==
    IF {r \in rows : r.loc = location_id} = {}
    THEN {[type |-> "Error", error |-> "TypeError"]}   \* (geom,) = None
    ELSE
    LET geom == Geometry(location_id)
        parameters ==
            CandidateParameters(location_id, select_properties, datetime_)
        spine == TimeQuery(location_id, select_properties, datetime_, limit)
        empty ==
            [t |-> <<>>,
             ranges |-> [p \in parameters |-> [values |-> <<>>, shape |-> 0]]]
    IN  IF GetParametersRaises(parameters)
        THEN {[type |-> "Error", error |-> "KeyError"]}
        ELSE
        {LET filled == Pivot(empty, location_id, Limit(o, limit))
         IN  [type |-> "Coverage",
              domainType |-> IF Len(filled.t) > 1 THEN Series(geom.geom_type)
                             ELSE geom.geom_type,
              axes |-> IF geom.geom_type = "Point" THEN {"t", "x", "y"}
                       ELSE {"t", "composite"},
              t |-> filled.t,
              parameters |-> GetParameters(parameters),
              ranges |-> filled.ranges] :
            o \in Orders(OuterJoin(spine, location_id))}

\* -------------------------------------------------- location query engine
\* results: the filtered, joined query of lines 200-209.
LocationsQuery(select_properties, bbox, datetime_) ==
    {r \in Joins(rows) :
        /\ BBoxFilter(bbox, r)
        /\ ParameterFilters(select_properties, r)
        /\ DatetimeFilter(datetime_, r)}

\* results.distinct(self.pic).with_entities(self.pic)
ActiveParameters(select_properties, bbox, datetime_) ==
    {r.param : r \in LocationsQuery(select_properties, bbox, datetime_)}

\* results.distinct(self.lc): one item per distinct location.
DistinctLocations(select_properties, bbox, datetime_) ==
    {r.loc : r \in LocationsQuery(select_properties, bbox, datetime_)}

\* results.distinct(self.lc).limit(limit): the store fixes neither the
\* order of the items nor which of them a limit keeps.
LimitedItems(items, limit) ==
    {o \in [1..Min(limit, Cardinality(items)) -> items] :
        \A i, j \in DOMAIN o : o[i] = o[j] => i = j}

\* _sqlalchemy_to_feature(item, results.where(lc == item's location))
SqlalchemyToFeature(item, results) ==
    LET scoped == {r \in results : r.loc = item}
    IN  [type |-> "Feature",
         id |-> item,
         datetime |-> <<Minimum({r.time : r \in scoped}),
                        Max({r.time : r \in scoped})>>,
         parameter_name |-> {r.param : r \in scoped},
         geometry |-> Geometry(item)]

\* A variant that reports the limit as numberReturned.
AddFeatureCountingLimit(resp, item, results, limit) ==
    [resp EXCEPT !.numberReturned = limit,
                 !.features = Append(@, SqlalchemyToFeature(item, results))]

\* The loop body of lines 223-232 for one item.
AddFeature(resp, item, results, limit) ==
    [resp EXCEPT !.numberReturned = @ + 1,
                 !.features = Append(@, SqlalchemyToFeature(item, results))]

RECURSIVE AddFeatures(_, _, _, _)
AddFeatures(resp, items, results, limit) ==
    IF items = <<>> THEN resp
    ELSE AddFeatures(AddFeature(resp, Head(items), results, limit),
                     Tail(items), results, limit)

\* locations() without a location_id: every collection (or error) the call
\* can produce.
LocationsResponses(select_properties, bbox, datetime_, limit) ==
    LET results == LocationsQuery(select_properties, bbox, datetime_)
        active == ActiveParameters(select_properties, bbox, datetime_)
    IN  IF GetParametersRaises(active)
        THEN {[type |-> "Error", error |-> "KeyError"]}
        ELSE
        {AddFeatures([type |-> "FeatureCollection",
                      features |-> <<>>,
                      parameters |-> Values(GetParameters(active)),
                      numberReturned |-> 0],
                     items, results, limit) :
            items \in LimitedItems(
                DistinctLocations(select_properties, bbox, datetime_), limit)}

\* ------------------------------------------------------------ operations
Init ==
    /\ rows \in {S \in SUBSET AllRows : Cardinality(S) <= MaxRows}
    /\ metadata \in SUBSET ParameterIds
    /\ pc = "new"
    /\ fields = NoFields
    /\ queries = 0
    /\ call = NoCall
    /\ response = NoResponse

\* EDRProvider.__init__, its last statement: self.get_fields().
Construct ==
    /\ pc = "new"
    /\ GetFields
    /\ pc' = "ready"
    /\ UNCHANGED <<rows, metadata, call, response>>

\* The host calls get_fields().
GetFieldsCall ==
    /\ pc = "ready" /\ call = NoCall
    /\ MustPopulate(fields, queries) => queries < MaxQueries
    /\ GetFields
    /\ call' = [op |-> "get_fields"]
    /\ response' = [type |-> "Fields", fields |-> fields']
    /\ UNCHANGED <<rows, metadata, pc>>

\* location(location_id, select_properties, datetime_, limit)
LocationCall ==
    /\ pc = "ready" /\ call = NoCall
    /\ \E location_id \in Locations, select_properties \in SelectProperties,
          datetime_ \in Datetimes, limit \in Limits :
        /\ call' = [op |-> "location", location_id |-> location_id,
                    select_properties |-> select_properties,
                    datetime_ |-> datetime_, limit |-> limit]
        /\ response' \in LocationResponses(location_id, select_properties,
                                           datetime_, limit)
    /\ UNCHANGED <<rows, metadata, pc, fields, queries>>

\* locations(select_properties, bbox, datetime_, limit, location_id):
\* a truthy location_id dispatches to location().
LocationsCall ==
    /\ pc = "ready" /\ call = NoCall
    /\ \E location_id \in Locations \cup {NoLocation},
          select_properties \in SelectProperties, bbox \in BBoxes,
          datetime_ \in Datetimes, limit \in Limits :
        /\ call' = [op |-> "locations", location_id |-> location_id,
                    select_properties |-> select_properties, bbox |-> bbox,
                    datetime_ |-> datetime_, limit |-> limit]
        /\ IF location_id # NoLocation
           THEN response' \in LocationResponses(location_id,
                                  select_properties, datetime_, limit)
           ELSE response' \in LocationsResponses(select_properties, bbox,
                                  datetime_, limit)
    /\ UNCHANGED <<rows, metadata, pc, fields, queries>>

\* The host takes the response; the provider is ready for the next request.
Return ==
    /\ call # NoCall
    /\ call' = NoCall
    /\ response' = NoResponse
    /\ UNCHANGED <<rows, metadata, pc, fields, queries>>

Next == Construct \/ GetFieldsCall \/ LocationsCall \/ LocationCall \/ Return

Spec == Init /\ [][Next]_vars

\* ================================================================ claims
\* The request being answered is location(), called directly or through
\* locations() with a location_id.
IsLocationCall ==
    \/ call.op = "location"
    \/ call.op = "locations" /\ call.location_id # NoLocation

\* The request being answered is locations() without a location_id.
IsLocationsCall == call.op = "locations" /\ call.location_id = NoLocation

IsCoverage == response.type = "Coverage"
IsFeatureCollection == response.type = "FeatureCollection"

FeatureIds == {response.features[i].id : i \in 1..Len(response.features)}

\* The time spine of the request being answered.
Spine ==
    TimeQuery(call.location_id, call.select_properties, call.datetime_,
              call.limit)

\* C1: in every coverage location() returns, every entry of `ranges` has
\* len(values) == len(domain.axes.t.values) == shape[0].
C1_RangesMatchTimeAxis ==
    IsCoverage =>
        \A p \in DOMAIN response.ranges :
            /\ Len(response.ranges[p].values) = Len(response.t)
            /\ Len(response.t) = response.ranges[p].shape

\* A coverage of two parameters over several rows, one range with a gap.
C1_Witness ==
    /\ IsCoverage
    /\ Cardinality(DOMAIN response.ranges) = 2
    /\ Len(response.t) >= 2
    /\ \E p \in DOMAIN response.ranges :
        \E i \in 1..Len(response.ranges[p].values) :
            response.ranges[p].values[i] = Null

\* C2: in the coverage, domain.axes.t.values is exactly the time spine:
\* the distinct filtered time values of the location, each once, in
\* descending order, truncated to `limit`.
C2_TimeAxisIsSpine ==
    IsCoverage => response.t = Spine

\* The result value of p's observation at (location, time), Null if none.
Observation(location_id, p, t) ==
    LET obs == {r \in rows :
                    r.loc = location_id /\ r.param = p /\ r.time = t}
    IN  IF obs = {} THEN Null ELSE <<(CHOOSE r \in obs : TRUE).value>>

\* C3: in the coverage, the value of every range aligned with a time of
\* the axis is the parameter's observation at that location and time when
\* one exists, and null otherwise.
C3_ValuesAlignedWithObservations ==
    IsCoverage =>
        \A p \in DOMAIN response.ranges :
            /\ Len(response.ranges[p].values) = Len(response.t)
            /\ \A i \in 1..Len(response.t) :
                response.ranges[p].values[i] =
                    Observation(call.location_id, p, response.t[i])

\* C4: location() for a location_id no stored row has fails with a
\* NotFoundError, not with another error and not with a coverage.
C4_MissingLocationIsNotFound ==
    (IsLocationCall /\ {r \in rows : r.loc = call.location_id} = {}) =>
        response = [type |-> "Error", error |-> "NotFoundError"]

\* C5: every FeatureCollection has numberReturned equal to the number of
\* entries of `features`; when no row matches the filters the call returns
\* an empty feature list with numberReturned 0 and raises nothing.
C5_NumberReturnedCountsFeatures ==
    IsLocationsCall =>
        /\ IsFeatureCollection
        /\ response.numberReturned = Len(response.features)
        /\ {r \in rows :
                /\ BBoxFilter(call.bbox, r)
                /\ ParameterFilters(call.select_properties, r)
                /\ DatetimeFilter(call.datetime_, r)} = {}
            => response.features = <<>> /\ response.numberReturned = 0

\* A collection that a limit cut short of the matching locations.
C5_Witness ==
    /\ IsLocationsCall
    /\ IsFeatureCollection
    /\ response.numberReturned = 1
    /\ Cardinality(DistinctLocations(call.select_properties, call.bbox,
                                     call.datetime_)) = 2

\* The locations having a row that satisfies the filters of the request.
FilteredLocations ==
    {r.loc : r \in {x \in rows :
        /\ BBoxFilter(call.bbox, x)
        /\ ParameterFilters(call.select_properties, x)
        /\ DatetimeFilter(call.datetime_, x)}}

\* C6: locations(limit=k) returns exactly min(k, N) features, N the number
\* of distinct locations having at least one row that satisfies the active
\* filters.
C6_LimitYieldsMin ==
    IsLocationsCall =>
        /\ IsFeatureCollection
        /\ Len(response.features) =
            Min(call.limit, Cardinality(FilteredLocations))

\* The feature ids of locations(select_properties = A) under the bbox and
\* datetime of the request being answered, when no limit truncates.
FeatureIdsFor(A) == DistinctLocations(A, call.bbox, call.datetime_)

\* The request's limit truncates nothing.
LimitTruncatesNothing ==
    call.limit >= Cardinality(DistinctLocations(call.select_properties,
                                                call.bbox, call.datetime_))

\* C7 (as claimed): for parameter-id lists A and B and a limit that
\* truncates nothing, the feature ids of locations(A u B) are the union of
\* those for A alone and for B alone, and every feature's parameter-name is
\* a subset of the requested ids.
C7_Original ==
    (IsLocationsCall /\ IsFeatureCollection /\ LimitTruncatesNothing) =>
        /\ \A A, B \in SelectProperties :
            Range(A) \cup Range(B) = Range(call.select_properties) =>
                FeatureIds = FeatureIdsFor(A) \cup FeatureIdsFor(B)
        /\ \A i \in 1..Len(response.features) :
            response.features[i].parameter_name
                \subseteq Range(call.select_properties)

\* C7 (amended): the same for non-empty parameter-id lists A and B (an
\* empty list is no filter and admits every parameter).
C7_UnionOfNonEmptyFilters ==
    (IsLocationsCall /\ IsFeatureCollection /\ LimitTruncatesNothing
        /\ call.select_properties # <<>>) =>
        /\ \A A, B \in SelectProperties \ {<<>>} :
            Range(A) \cup Range(B) = Range(call.select_properties) =>
                FeatureIds = FeatureIdsFor(A) \cup FeatureIdsFor(B)
        /\ \A i \in 1..Len(response.features) :
            response.features[i].parameter_name
                \subseteq Range(call.select_properties)

\* A request for both parameters returning two locations, each of which
\* has one of the two parameters only.
C7_Witness ==
    /\ IsLocationsCall
    /\ IsFeatureCollection
    /\ LimitTruncatesNothing
    /\ Len(call.select_properties) = 2
    /\ Cardinality(FeatureIds) = 2
    /\ FeatureIdsFor(<<"00010">>) # FeatureIdsFor(<<"00060">>)
    /\ FeatureIdsFor(<<"00010">>) # {} /\ FeatureIdsFor(<<"00060">>) # {}

\* C8: over any sequence of get_fields() calls the field-catalog query is
\* sent to the store at most once, also when the first query returned no
\* rows.
C8_AtMostOneCatalogQuery == queries <= 1

\* C9: the collection-level `parameters` lists exactly the distinct
\* parameter ids of the rows that satisfy the filters (none when no row
\* matches), and every id of a feature's parameter-name is listed.  Rows
\* are those of the joined query, the reading most favourable to the claim.
C9_ParametersAreActiveSet ==
    (IsLocationsCall /\ IsFeatureCollection) =>
        /\ {q.id : q \in response.parameters} =
            ActiveParameters(call.select_properties, call.bbox,
                             call.datetime_)
        /\ \A i \in 1..Len(response.features) :
            response.features[i].parameter_name
                \subseteq {q.id : q \in response.parameters}

\* C10: in every coverage the keys of `parameters` are exactly the
\* candidate parameter set and each of them has an entry in `ranges`, also
\* when the candidate set is empty.  Rows are those of the joined query,
\* the reading most favourable to the claim.
C10_ParametersAreCandidateSet ==
    IsCoverage =>
        /\ DOMAIN response.parameters =
            CandidateParameters(call.location_id, call.select_properties,
                                call.datetime_)
        /\ DOMAIN response.parameters \subseteq DOMAIN response.ranges

\* ============================================ qualified-path resolver
MaxSegments == 3    \* longest dot-qualified path resolved

\* The reflected schema: the primary table model and the external table
\* __init__ attaches to it as a relationship (lines 76-97).
PrimaryModel == "waterservices_daily"
ExternalModel == "waterservices_timeseries_metadata"

Columns(model) ==
    IF model = PrimaryModel
    THEN {"time", "geometry", "parameter_code", "unit_of_measure", "value",
          "monitoring_location_id"}
    ELSE {"parameter_code", "parameter_name"}

\* setattr(self.table_model, ext_table, foreign_relationship)
Relationships(model) ==
    IF model = PrimaryModel THEN {ExternalModel} ELSE {}

\* getattr(model, name): a column, a relationship, or AttributeError.
GetAttr(model, name) ==
    IF name \in Columns(model)
    THEN [type |-> "Column", model |-> model, name |-> name]
    ELSE IF name \in Relationships(model)
    THEN [type |-> "Relationship", model |-> model, name |-> name]
    ELSE [type |-> "Error", error |-> "AttributeError"]

AttributeError == [type |-> "Error", error |-> "AttributeError"]

\* The segments a path is made of, and the paths resolved: a path is the
\* sequence of its dot-separated segments.
Segments == {"parameter_code", "parameter_name", ExternalModel, "nope"}

Paths == UNION {[1..n -> Segments] : n \in 1..MaxSegments}

\* pygeoapi_sql_edr.lib.get_column_from_qualified_name, imported by edr.py
\* as gqname: two segments hop through table.mapper.class_, any other
\* path is one getattr of the whole name.
gqname(model, qualified_name) ==
    IF Len(qualified_name) = 2
    THEN LET table == GetAttr(model, qualified_name[1])
         IN  IF table.type = "Error" THEN AttributeError
             ELSE IF table.type # "Relationship"
             THEN AttributeError                   \* a column has no .mapper
             ELSE GetAttr(table.name, qualified_name[2])
    ELSE IF Len(qualified_name) = 1
         THEN GetAttr(model, qualified_name[1])
         ELSE AttributeError          \* no attribute is named "a.b.c"

\* pg_edr.lib.get_column_from_qualified_name: split at the first dot,
\* return the model when the segment is no attribute of it, return the
\* attribute when no segment is left, else follow the relationship.
RECURSIVE get_column_from_qualified_name(_, _)
get_column_from_qualified_name(model, path) ==
    LET attr == GetAttr(model, Head(path))
    IN  IF attr.type = "Error" THEN [type |-> "Model", model |-> model]
        ELSE IF Len(path) = 1 THEN attr
        ELSE IF attr.type # "Relationship"
        THEN AttributeError                        \* a column has no .mapper
        ELSE get_column_from_qualified_name(attr.name, Tail(path))

\* The roles __init__ binds (tc, gc, pic, pnc, puc, rc, lc) in the order of
\* lines 102-124, and the paths a configuration may give a role.
Roles == <<"tc", "gc", "pic", "pnc", "puc", "rc", "lc">>

ConfigPaths ==
    {<<"parameter_code">>, <<ExternalModel, "parameter_name">>,
     <<ExternalModel>>, <<"nope">>}

\* __init__, lines 99-124: bind every role with gqname; the first error
\* aborts the construction.
BindRoles(config) ==
    LET bound == [i \in 1..Len(Roles) |-> gqname(PrimaryModel, config[i])]
    IN  IF \E i \in 1..Len(Roles) : bound[i].type = "Error"
        THEN AttributeError
        ELSE [type |-> "Provider", columns |-> bound]

InitResolver ==
    /\ rows = {}
    /\ metadata = {}
    /\ pc = "config"
    /\ fields = NoFields
    /\ queries = 0
    /\ call = NoCall
    /\ response = NoResponse

\* A call of the resolver of edr.py.
GqnameCall ==
    /\ pc = "config" /\ call = NoCall
    /\ \E model \in {PrimaryModel, ExternalModel}, path \in Paths :
        /\ call' = [op |-> "gqname", model |-> model, path |-> path]
        /\ response' = gqname(model, path)
    /\ UNCHANGED <<rows, metadata, pc, fields, queries>>

\* A call of the resolver of pg_edr.
GetColumnCall ==
    /\ pc = "config" /\ call = NoCall
    /\ \E model \in {PrimaryModel, ExternalModel}, path \in Paths :
        /\ call' = [op |-> "get_column_from_qualified_name",
                    model |-> model, path |-> path]
        /\ response' = get_column_from_qualified_name(model, path)
    /\ UNCHANGED <<rows, metadata, pc, fields, queries>>

\* EDRProvider.__init__ binding its roles from a configuration.
BindRolesCall ==
    /\ pc = "config" /\ call = NoCall
    /\ \E config \in [1..Len(Roles) -> ConfigPaths] :
        /\ call' = [op |-> "__init__", config |-> config]
        /\ response' = BindRoles(config)
    /\ UNCHANGED <<rows, metadata, pc, fields, queries>>

NextResolver == GetColumnCall \/ GqnameCall \/ BindRolesCall \/ Return

SpecResolver == InitResolver /\ [][NextResolver]_vars

\* C11: get_column_from_qualified_name either returns a column reference or
\* fails, never a non-column value (the model, a relationship, nothing);
\* hence initialization binds every role to a column reference or fails.
C11_ResolvesColumnOrFails ==
    /\ call.op \in {"gqname", "get_column_from_qualified_name"} =>
        response.type \in {"Column", "Error"}
    /\ call.op = "__init__" =>
        \/ response.type = "Error"
        \/ /\ response.type = "Provider"
           /\ \A i \in 1..Len(Roles) : response.columns[i].type = "Column"

\* ====================================== location and coverage, continued
\* C12: locations() with no bbox, datetime or parameter filter and a limit
\* of at least the number of locations returns exactly one feature per
\* distinct location that has an observation row: none is missing (also
\* when its rows have no match in the joined external table), no id
\* appears twice, and no other location is returned.
C12_OneFeaturePerObservedLocation ==
    (/\ IsLocationsCall
     /\ call.bbox = <<>>
     /\ call.datetime_ = NoDatetime
     /\ call.select_properties = <<>>
     /\ call.limit >= Cardinality({r.loc : r \in rows})) =>
        /\ IsFeatureCollection
        /\ FeatureIds = {r.loc : r \in rows}
        /\ Len(response.features) = Cardinality(FeatureIds)

\* C13: the coverage's domainType is the geometry kind with the suffix
\* "Series" when the time spine has more than one value, and the bare
\* geometry kind when it has one value or none.
C13_SeriesIffSpineHasSeveralTimes ==
    IsCoverage =>
        response.domainType =
            IF Len(Spine) > 1
            THEN Series(Geometry(call.location_id).geom_type)
            ELSE Geometry(call.location_id).geom_type

\* ========================================== concurrent get_fields() calls
NumThreads == 2     \* request threads calling get_fields() at once

Threads == 1..NumThreads

\* The catalog one uninterrupted population produces from the store.
Populated == [p \in FieldRows |-> FieldEntry(p)]

\* A variant that rebinds the catalog to a fresh mapping holding the one
\* entry.
StoreEntryRebinding(f, p) == [q \in {p} |-> FieldEntry(p)]

\* self._fields[parameter_id] = {...} (lines 149-153)
StoreEntry(f, p) ==
    [q \in DOMAIN f \cup {p} |-> IF q = p THEN FieldEntry(p) ELSE f[q]]

\* The provider was constructed while the catalog query had no rows to
\* return, so self._fields is still empty; the table has been loaded since
\* and the request threads are about to call get_fields().
InitRace ==
    /\ rows \in {S \in SUBSET AllRows : Cardinality(S) <= MaxRows}
    /\ metadata \in SUBSET ParameterIds
    /\ pc = [t \in Threads |-> "idle"]
    /\ fields = NoFields
    /\ queries = 1
    /\ call = [t \in Threads |-> {}]
    /\ response = [t \in Threads |-> FALSE]

\* Line 137: the guard `not self._fields and hasattr(self, "parameter_id")`.
Enter(t) ==
    /\ pc[t] = "idle"
    /\ pc' = [pc EXCEPT ![t] = IF MustPopulate(fields, queries)
                               THEN "query" ELSE "return"]
    /\ UNCHANGED <<rows, metadata, fields, queries, call, response>>

\* Lines 138-148: the session runs the distinct query over the joins.
Query(t) ==
    /\ pc[t] = "query"
    /\ queries' = queries + 1
    /\ call' = [call EXCEPT ![t] = FieldRows]
    /\ pc' = [pc EXCEPT ![t] = "store"]
    /\ UNCHANGED <<rows, metadata, fields, response>>

\* Lines 148-153: one turn of the loop over the result rows.
Store(t) ==
    /\ pc[t] = "store"
    /\ IF call[t] = {}
       THEN /\ pc' = [pc EXCEPT ![t] = "return"]
            /\ UNCHANGED <<fields, call>>
       ELSE \E p \in call[t] :
            /\ fields' = StoreEntry(fields, p)
            /\ call' = [call EXCEPT ![t] = @ \ {p}]
            /\ UNCHANGED pc
    /\ UNCHANGED <<rows, metadata, queries, response>>

\* Line 155: return self._fields.
ReturnFields(t) ==
    /\ pc[t] = "return"
    /\ pc' = [pc EXCEPT ![t] = "done"]
    /\ response' = [response EXCEPT ![t] = TRUE]
    /\ UNCHANGED <<rows, metadata, fields, queries, call>>

NextRace ==
    \E t \in Threads : Enter(t) \/ Query(t) \/ Store(t) \/ ReturnFields(t)

SpecRace == InitRace /\ [][NextRace]_vars

\* C14: when get_fields() calls race on an unpopulated catalog, under every
\* interleaving the catalog they leave behind is the one a single
\* uninterrupted population produces from the same store contents (no
\* entry missing, extra or mixed up); the race only adds queries.
C14_RaceLeavesPopulatedCatalog ==
    /\ \A p \in DOMAIN fields : p \in FieldRows /\ fields[p] = FieldEntry(p)
    /\ (\A t \in Threads : pc[t] = "done") => fields = Populated

\* Two calls both passed the guard and both queried and stored a catalog
\* of two parameters.
C14_Witness ==
    /\ \A t \in Threads : pc[t] = "done"
    /\ queries >= 3
    /\ Cardinality(DOMAIN fields) = 2

====
